---- MODULE Spec2Model ----
(***************************************************************************)
(* A model of factivartf2csv.py: the article segmenter (split_articles),   *)
(* the row builder (rtf_factiva_to_rows), the keyword classifier           *)
(* (split_keywords), the company pattern (COMPANY_RE) and the batch loop   *)
(* of main.                                                                *)
(*                                                                         *)
(* Text is a sequence of characters; a character is a one-character        *)
(* string, and the CJK characters the program looks for are named          *)
(* constants.  Line and article indices are the program's own 0-based      *)
(* indices; At(s, i) reads position i of a 0-based sequence.               *)
(***************************************************************************)
EXTENDS Integers, Sequences, FiniteSets, TLC

VARIABLES
    pc,          \* position of the running function
    lines,       \* split_articles: the line stream (line 163)
    articles,    \* split_articles: the list of accepted articles
    rows,        \* rtf_factiva_to_rows: the emitted rows
    err,         \* the exception that ended the run, "" when none
    kw,          \* split_keywords: the keyword string
    buckets,     \* split_keywords: (topics, regions, industries)
    sample_text, \* the text COMPANY_RE is run on
    companies,   \* sorted(set(...)) of the COMPANY_RE matches
    rtf_files,   \* main: the enumerated input documents
    merge,       \* main: args.merge
    out_mode,    \* main: what output_path is ("none", "dir", "file")
    fidx,        \* main: index of the next document of the loop
    all_rows,    \* main: the merged rows
    written,     \* main: the CSV files written, in order
    messages     \* main: the messages printed, in order

vars ==
    <<pc, lines, articles, rows, err, kw, buckets, sample_text, companies,
      rtf_files, merge, out_mode, fidx, all_rows, written, messages>>

segVars == <<lines, articles, rows, err>>
kwVars == <<kw, buckets>>
coVars == <<sample_text, companies>>
mainVars == <<rtf_files, merge, out_mode, fidx, all_rows, written, messages>>

----------------------------------------------------------------------------
(* Characters *)

nian == "<U+5E74>"
yue == "<U+6708>"
ri == "<U+65E5>"
zi == "<U+5B57>"
ying == "<U+82F1>"
wen == "<U+6587>"
zhong == "<U+4E2D>"
jian == "<U+4EF6>"
NL == "\n"

CJK == {nian, yue, ri, zi, ying, wen, zhong, jian}
Digit == {"0", "1", "2", "3", "4", "5", "6", "7", "8", "9"}
Upper ==
    {"A", "B", "C", "D", "E", "F", "G", "H", "I", "J", "K", "L", "M",
     "N", "O", "P", "Q", "R", "S", "T", "U", "V", "W", "X", "Y", "Z"}
Lower ==
    {"a", "b", "c", "d", "e", "f", "g", "h", "i", "j", "k", "l", "m",
     "n", "o", "p", "q", "r", "s", "t", "u", "v", "w", "x", "y", "z"}
\* \s of the pattern engine and the whitespace str.strip removes
Space == {" ", "\t", NL}
\* \w: letters of any script, digits and the underscore
WordChar == Upper \cup Lower \cup Digit \cup CJK \cup {"_"}
\* the characters body_sanitize counts as hexadecimal
HexChar == Digit \cup {"A", "B", "C", "D", "E", "F", "a", "b", "c", "d", "e", "f"}

ToLower ==
    ("A" :> "a") @@ ("B" :> "b") @@ ("C" :> "c") @@ ("D" :> "d") @@ ("E" :> "e") @@
    ("F" :> "f") @@ ("G" :> "g") @@ ("H" :> "h") @@ ("I" :> "i") @@ ("J" :> "j") @@
    ("K" :> "k") @@ ("L" :> "l") @@ ("M" :> "m") @@ ("N" :> "n") @@ ("O" :> "o") @@
    ("P" :> "p") @@ ("Q" :> "q") @@ ("R" :> "r") @@ ("S" :> "s") @@ ("T" :> "t") @@
    ("U" :> "u") @@ ("V" :> "v") @@ ("W" :> "w") @@ ("X" :> "x") @@ ("Y" :> "y") @@
    ("Z" :> "z")

LowerChar(c) == IF c \in Upper THEN ToLower[c] ELSE c

\* str.lower
LowerStr(s) == [i \in 1..Len(s) |-> LowerChar(s[i])]

DigitVal ==
    ("0" :> 0) @@ ("1" :> 1) @@ ("2" :> 2) @@ ("3" :> 3) @@ ("4" :> 4) @@
    ("5" :> 5) @@ ("6" :> 6) @@ ("7" :> 7) @@ ("8" :> 8) @@ ("9" :> 9)

DigitChar == <<"0", "1", "2", "3", "4", "5", "6", "7", "8", "9">>

\* code point order of the characters sorted() compares
CharOrder ==
    <<"\t", NL, " ", "&", "-", ".", "0", "1", "2", "3", "4", "5", "6", "7", "8", "9",
      "A", "B", "C", "D", "E", "F", "G", "H", "I", "J", "K", "L", "M",
      "N", "O", "P", "Q", "R", "S", "T", "U", "V", "W", "X", "Y", "Z",
      "a", "b", "c", "d", "e", "f", "g", "h", "i", "j", "k", "l", "m",
      "n", "o", "p", "q", "r", "s", "t", "u", "v", "w", "x", "y", "z">>

Ord(c) == CHOOSE i \in 1..Len(CharOrder) : CharOrder[i] = c

----------------------------------------------------------------------------
(* Strings *)

\* position i (0-based) of a list
At(s, i) == s[i + 1]

\* s[a:b] of a list, a and b 0-based and a >= 0; empty when a >= b
Slice(s, a, b) == SubSeq(s, a + 1, IF b > Len(s) THEN Len(s) ELSE b)

\* the pattern literal lit occurs in s at position i (1-based)
HasAt(s, i, lit) ==
    /\ i >= 1
    /\ i + Len(lit) - 1 <= Len(s)
    /\ \A k \in 1..Len(lit) : s[i + k - 1] = lit[k]

\* lit in s
Contains(s, lit) == \E i \in 1..(Len(s) - Len(lit) + 1) : HasAt(s, i, lit)

\* first position >= i of s whose character is not in class (Len(s) + 1 when none)
RECURSIVE SkipClass(_, _, _)
SkipClass(s, i, class) ==
    IF i <= Len(s) /\ s[i] \in class THEN SkipClass(s, i + 1, class) ELSE i

\* last position <= i of s whose character is not in class (0 when none)
RECURSIVE SkipClassBack(_, _, _)
SkipClassBack(s, i, class) ==
    IF i >= 1 /\ s[i] \in class THEN SkipClassBack(s, i - 1, class) ELSE i

\* first position >= i of s holding c (Len(s) + 1 when none)
RECURSIVE FindChar(_, _, _)
FindChar(s, i, c) ==
    IF i <= Len(s) /\ s[i] # c THEN FindChar(s, i + 1, c) ELSE i

\* first position >= i of s whose character is in class (Len(s) + 1 when none)
RECURSIVE FindIn(_, _, _)
FindIn(s, i, class) ==
    IF i <= Len(s) /\ s[i] \notin class THEN FindIn(s, i + 1, class) ELSE i

\* str.strip, str.rstrip
Strip(s) == SubSeq(s, SkipClass(s, 1, Space), SkipClassBack(s, Len(s), Space))
RStrip(s) == SubSeq(s, 1, SkipClassBack(s, Len(s), Space))
RStripChars(s, class) == SubSeq(s, 1, SkipClassBack(s, Len(s), class))

\* sep.join(parts)
RECURSIVE Join(_, _)
Join(parts, sep) ==
    IF Len(parts) = 0 THEN <<>>
    ELSE IF Len(parts) = 1 THEN parts[1]
    ELSE parts[1] \o sep \o Join(Tail(parts), sep)

\* str.splitlines, from position i on
RECURSIVE SplitLinesFrom(_, _)
SplitLinesFrom(t, i) ==
    IF i > Len(t) THEN <<>>
    ELSE LET j == FindChar(t, i, NL)
         IN  <<SubSeq(t, i, j - 1)>> \o SplitLinesFrom(t, j + 1)

SplitLines(t) == SplitLinesFrom(t, 1)

\* str.split(sep) for a one-character separator, from position i on
RECURSIVE SplitCharFrom(_, _, _)
SplitCharFrom(t, i, c) ==
    LET j == FindChar(t, i, c)
    IN  IF j > Len(t) THEN <<SubSeq(t, i, Len(t))>>
        ELSE <<SubSeq(t, i, j - 1)>> \o SplitCharFrom(t, j + 1, c)

\* re.sub(r"\n{3,}", "\n\n", t): a run of three or more newlines becomes two
RECURSIVE CollapseNewlines(_, _)
CollapseNewlines(t, i) ==
    IF i > Len(t) THEN <<>>
    ELSE IF t[i] # NL THEN
        LET j == FindChar(t, i, NL)
        IN  SubSeq(t, i, j - 1) \o CollapseNewlines(t, j)
    ELSE
        LET j == SkipClass(t, i, {NL})
        IN  (IF j - i >= 3 THEN <<NL, NL>> ELSE SubSeq(t, i, j - 1))
            \o CollapseNewlines(t, j)

NonEmpty(s) == Len(s) > 0

\* the least and the greatest member of a non-empty set of positions
MinOf(S) == CHOOSE m \in S : \A n \in S : m <= n
MaxOf(S) == CHOOSE m \in S : \A n \in S : n <= m

----------------------------------------------------------------------------
(* Parsing helpers *)

\* the integer a string of digits denotes (0 for the empty string)
RECURSIVE IntOfDigits(_)
IntOfDigits(s) ==
    IF Len(s) = 0 THEN 0
    ELSE IntOfDigits(SubSeq(s, 1, Len(s) - 1)) * 10 + DigitVal[s[Len(s)]]

IsDigits(s, i, n) == i + n - 1 <= Len(s) /\ \A k \in 0..(n - 1) : s[i + k] \in Digit

\* WORDCOUNT_RE = ^\s*([\d,]+)\s*字 : group 1 of the match on l, <<>> when no match
WordCountGroup(l) ==
    LET a == SkipClass(l, 1, Space)
        b == SkipClass(l, a, Digit \cup {","})
        c == SkipClass(l, b, Space)
    IN  IF b > a /\ c <= Len(l) /\ l[c] = zi THEN SubSeq(l, a, b - 1) ELSE <<>>

IsWordCountLine(l) == NonEmpty(WordCountGroup(l))

\* the gap .{0,10}? of the date pattern
DateGap == 10

NoMatch == [ok |-> FALSE]

\* .{0,10}?日 from position p with a gap of at least g: the position after 日, 0 when none
RECURSIVE DayMarkFrom(_, _, _)
DayMarkFrom(s, p, g) ==
    IF g > DateGap \/ p + g > Len(s) THEN 0
    ELSE IF s[p + g] = ri THEN p + g + 1
    ELSE IF s[p + g] = NL THEN 0
    ELSE DayMarkFrom(s, p, g + 1)

\* the value of a pattern item: r when it matched (r > 0 or r.ok), else what the
\* engine tries next
OrElsePos(r, next) == IF r > 0 THEN r ELSE next
OrElse(r, next) == IF r.ok THEN r ELSE next

\* the n digits at q as group (\d{1,2}) of the day, followed by the match e of .{0,10}?日
DayAt(s, q, n, e) ==
    IF e > 0 THEN [ok |-> TRUE, d |-> IntOfDigits(SubSeq(s, q, q + n - 1)), e |-> e]
    ELSE NoMatch

\* .{0,10}?(\d{1,2}).{0,10}?日 from p: the lazy gap grows from g, the digits are greedy
RECURSIVE DayFrom(_, _, _)
DayFrom(s, p, g) ==
    IF g > DateGap \/ p + g > Len(s) THEN NoMatch
    ELSE OrElse(DayAt(s, p + g, 2, IF IsDigits(s, p + g, 2) THEN DayMarkFrom(s, p + g + 2, 0) ELSE 0),
         OrElse(DayAt(s, p + g, 1, IF IsDigits(s, p + g, 1) THEN DayMarkFrom(s, p + g + 1, 0) ELSE 0),
                IF s[p + g] = NL THEN NoMatch ELSE DayFrom(s, p, g + 1)))

\* the n digits at q as group (\d{1,2}) of the month, followed by the match r of the day
MonthAt(s, q, n, r) ==
    IF r.ok THEN [ok |-> TRUE, mo |-> IntOfDigits(SubSeq(s, q, q + n - 1)), d |-> r.d, e |-> r.e]
    ELSE NoMatch

\* .{0,10}?(\d{1,2}) and the rest of the date from p
RECURSIVE MonthFrom(_, _, _)
MonthFrom(s, p, g) ==
    IF g > DateGap \/ p + g > Len(s) THEN NoMatch
    ELSE OrElse(MonthAt(s, p + g, 2, IF IsDigits(s, p + g, 2) THEN DayFrom(s, p + g + 2, 0) ELSE NoMatch),
         OrElse(MonthAt(s, p + g, 1, IF IsDigits(s, p + g, 1) THEN DayFrom(s, p + g + 1, 0) ELSE NoMatch),
                IF s[p + g] = NL THEN NoMatch ELSE MonthFrom(s, p, g + 1)))

\* (\d{1,2}):(\d{2}) at q with n digits of hour
TimeAt(s, q, n) ==
    IF IsDigits(s, q, n) /\ HasAt(s, q + n, <<":">>) /\ IsDigits(s, q + n + 1, 2)
    THEN [ok |-> TRUE, hh |-> IntOfDigits(SubSeq(s, q, q + n - 1)),
          mm |-> IntOfDigits(SubSeq(s, q + n + 1, q + n + 2))]
    ELSE NoMatch

\* the optional (?:.{0,10}?(\d{1,2}):(\d{2}))? from p
RECURSIVE TimeFrom(_, _, _)
TimeFrom(s, p, g) ==
    IF g > DateGap \/ p + g > Len(s) THEN NoMatch
    ELSE OrElse(TimeAt(s, p + g, 2),
         OrElse(TimeAt(s, p + g, 1),
                IF s[p + g] = NL THEN NoMatch ELSE TimeFrom(s, p, g + 1)))

\* the groups of a match: the year at i, month and day r, the optional time t
DateGroups(s, i, r, t) ==
    [ok |-> TRUE, y |-> IntOfDigits(SubSeq(s, i, i + 3)), mo |-> r.mo, d |-> r.d,
     hh |-> IF t.ok THEN t.hh ELSE 0,
     mm |-> IF t.ok THEN t.mm ELSE 0]

DateAt(s, i, r) == IF r.ok THEN DateGroups(s, i, r, TimeFrom(s, r.e, 0)) ELSE NoMatch

\* re.search of the date pattern: the leftmost start i of (\d{4}) that matches
RECURSIVE DateSearch(_, _)
DateSearch(s, i) ==
    IF i + 3 > Len(s) THEN NoMatch
    ELSE OrElse(DateAt(s, i, IF IsDigits(s, i, 4) THEN MonthFrom(s, i + 4, 0) ELSE NoMatch),
                DateSearch(s, i + 1))

IsLeap(y) == (y % 4 = 0 /\ y % 100 # 0) \/ y % 400 = 0

DaysInMonth(y, mo) ==
    IF mo = 2 THEN (IF IsLeap(y) THEN 29 ELSE 28)
    ELSE IF mo \in {4, 6, 9, 11} THEN 30 ELSE 31

\* the arguments datetime.datetime accepts; it raises ValueError on the others
ValidDateTime(y, mo, d, hh, mm) ==
    /\ y \in 1..9999
    /\ mo \in 1..12
    /\ d >= 1 /\ d <= DaysInMonth(y, mo)
    /\ hh \in 0..23
    /\ mm \in 0..59

\* the value of parse_factiva_date for the match m of the pattern
DateOfMatch(m) ==
    IF ~m.ok THEN [kind |-> "none"]
    ELSE IF ~ValidDateTime(m.y, m.mo, m.d, m.hh, m.mm) THEN [kind |-> "raise"]
    ELSE [kind |-> "ok", y |-> m.y, mo |-> m.mo, d |-> m.d, hh |-> m.hh, mm |-> m.mm]

\* parse_factiva_date: "none" for None, "raise" when datetime.datetime raises
parse_factiva_date(line) == DateOfMatch(DateSearch(Strip(line), 1))

\* n written with at least w digits, zero padded
RECURSIVE Pad(_, _)
Pad(n, w) ==
    IF w <= 1 /\ n < 10 THEN <<DigitChar[n + 1]>>
    ELSE Pad(n \div 10, w - 1) \o <<DigitChar[(n % 10) + 1]>>

\* dt.isoformat(sep=" ") of a datetime with no seconds
isoformat(dt) ==
    Pad(dt.y, 4) \o <<"-">> \o Pad(dt.mo, 2) \o <<"-">> \o Pad(dt.d, 2) \o <<" ">>
    \o Pad(dt.hh, 2) \o <<":">> \o Pad(dt.mm, 2) \o <<":", "0", "0">>

EnglishWord == <<"e", "n", "g", "l", "i", "s", "h">>
ChineseWord == <<"c", "h", "i", "n", "e", "s", "e">>

\* re.search(r"\bword\b", l, re.I), word given in lower case
HasWord(l, word) ==
    LET low == LowerStr(l)
    IN  \E i \in 1..(Len(l) - Len(word) + 1) :
            /\ HasAt(low, i, word)
            /\ (i = 1 \/ l[i - 1] \notin WordChar)
            /\ (i + Len(word) > Len(l) \/ l[i + Len(word)] \notin WordChar)

\* the language label, <<>> for ""
LangEnglish == <<ying, wen>>
LangChinese == <<zhong, wen>>

detect_language(line) ==
    LET l == Strip(line)
    IN  IF Contains(l, <<ying, wen>>) \/ (Contains(l, <<ying>>) /\ Contains(l, <<wen>>))
           \/ HasWord(l, EnglishWord)
        THEN LangEnglish
        ELSE IF Contains(l, <<zhong, wen>>) \/ (Contains(l, <<zhong>>) /\ Contains(l, <<wen>>))
                \/ HasWord(l, ChineseWord)
        THEN LangChinese
        ELSE <<>>

\* the end of the match of ^(?:toc\d+)+ from position i
RECURSIVE SkipToc(_, _)
SkipToc(s, i) ==
    IF HasAt(s, i, <<"t", "o", "c">>) /\ IsDigits(s, i + 3, 1)
    THEN SkipToc(s, SkipClass(s, i + 3, Digit))
    ELSE i

\* the end of the match of ^\W+ from position i
RECURSIVE SkipNonWord(_, _)
SkipNonWord(s, i) ==
    IF i <= Len(s) /\ s[i] \notin WordChar THEN SkipNonWord(s, i + 1) ELSE i

clean_title(title) ==
    LET t == Strip(SubSeq(title, SkipToc(title, 1), Len(title)))
    IN  Strip(SubSeq(t, SkipNonWord(t, 1), Len(t)))

\* the thresholds of body_sanitize: len(l) > 80 and hex_chars / len(l) > 0.8
HexLineLen == 80
HexRatioNum == 8
HexRatioDen == 10

HexCount(l) == Cardinality({i \in 1..Len(l) : l[i] \in HexChar})

IsHexLine(ln) ==
    LET l == Strip(ln)
    IN  /\ NonEmpty(l)
        /\ Len(l) > HexLineLen
        /\ HexCount(l) * HexRatioDen > HexRatioNum * Len(l)

\* the mutation of SanitizeLines that drops a hex line and goes on with the next
RECURSIVE SanitizeLinesSkipHex(_, _)
SanitizeLinesSkipHex(ls, i) ==
    IF i > Len(ls) THEN <<>>
    ELSE IF ~NonEmpty(Strip(ls[i])) THEN <<(<<>>)>> \o SanitizeLinesSkipHex(ls, i + 1)
    ELSE IF IsHexLine(ls[i]) THEN SanitizeLinesSkipHex(ls, i + 1)
    ELSE <<RStrip(ls[i])>> \o SanitizeLinesSkipHex(ls, i + 1)

\* the loop of body_sanitize over the lines from position i: it stops at a hex line
RECURSIVE SanitizeLines(_, _)
SanitizeLines(ls, i) ==
    IF i > Len(ls) THEN <<>>
    ELSE IF ~NonEmpty(Strip(ls[i])) THEN <<(<<>>)>> \o SanitizeLines(ls, i + 1)
    ELSE IF IsHexLine(ls[i]) THEN <<>>
    ELSE <<RStrip(ls[i])>> \o SanitizeLines(ls, i + 1)

body_sanitize(body) ==
    CollapseNewlines(Strip(Join(SanitizeLines(SplitLines(body), 1), <<NL>>)), 1)

\* FILE_ID_PATTERN = \b[A-Z]{2,10}\d{8,}[A-Za-z0-9]{3,}\b
FileIdMinUpper == 2
FileIdMaxUpper == 10
FileIdMinDigits == 8
FileIdMinTail == 3
\* the gap \D{0,15} of extract_file_id
FileIdGap == 15

\* FILE_ID_PATTERN from position i, where the upper-case run ends at a, the digits
\* at b and the alphanumeric run at c: the digits and the run after them are shared
\* between \d{8,} and [A-Za-z0-9]{3,}, and the match ends at \b
FileIdRuns(t, i, a, b, c) ==
    IF /\ a - i >= FileIdMinUpper /\ a - i <= FileIdMaxUpper
       /\ b - a >= FileIdMinDigits
       /\ c - a >= FileIdMinDigits + FileIdMinTail
       /\ (c > Len(t) \/ t[c] \notin WordChar)
    THEN c ELSE 0

FileIdDigits(t, i, a) ==
    FileIdRuns(t, i, a, SkipClass(t, a, Digit),
               SkipClass(t, SkipClass(t, a, Digit), Upper \cup Lower \cup Digit))

\* the position after the match of FILE_ID_PATTERN that starts at i, 0 when none
FileIdEnd(t, i) ==
    IF i >= 1 /\ i <= Len(t) /\ t[i] \in Upper /\ (i = 1 \/ t[i - 1] \notin WordChar)
    THEN FileIdDigits(t, i, SkipClass(t, i, Upper))
    ELSE 0

\* the gaps g of \D{0,15} between the mark at i and a file id
FileIdGaps(t, i) ==
    {g \in 0..FileIdGap :
        /\ \A k \in 0..(g - 1) : i + 2 + k <= Len(t) /\ t[i + 2 + k] \notin Digit
        /\ FileIdEnd(t, i + 2 + g) > 0}

\* the match of 文件\D{0,15}(FILE_ID_PATTERN) with the mark at position i: the start of
\* group 1 under the greedy gap, 0 when none
FileIdAfterMark(t, i) ==
    IF HasAt(t, i, <<wen, jian>>) /\ FileIdGaps(t, i) # {}
    THEN i + 2 + MaxOf(FileIdGaps(t, i))
    ELSE 0

FileIdFrom(text, s) == SubSeq(text, s, FileIdEnd(text, s) - 1)

\* the file id given the marks followed by one and the starts of all of them
FileIdChoice(text, marks, all) ==
    IF marks # {} THEN FileIdFrom(text, FileIdAfterMark(text, MinOf(marks)))
    ELSE IF all # {} THEN FileIdFrom(text, MaxOf(all))
    ELSE <<>>

extract_file_id(text) ==
    FileIdChoice(text,
                 {i \in 1..Len(text) : text[i] = wen /\ FileIdAfterMark(text, i) > 0},
                 {i \in 1..Len(text) : FileIdEnd(text, i) > 0})

KeywordsPhrase ==
    <<"K", "e", "y", "w", "o", "r", "d", "s", " ", "f", "o", "r", " ", "t", "h", "i", "s", " ",
      "n", "e", "w", "s", " ", "a", "r", "t", "i", "c", "l", "e", " ", "i", "n", "c", "l", "u",
      "d", "e", ":">>

\* the starts (.+) may take between e, where the phrase ends, and w, where \s* ends
KeywordsStarts(t, e, w) == {p \in e..w : p <= Len(t) /\ t[p] # NL}

\* Keywords for this news article include:\s*(.+) with the phrase at position i:
\* the start of group 1, 0 when none.  \s* is greedy and gives characters back
\* until (.+) finds a character that is not a newline.
KeywordsGroupStart(t, i) ==
    IF HasAt(t, i, KeywordsPhrase)
       /\ KeywordsStarts(t, i + Len(KeywordsPhrase),
                         SkipClass(t, i + Len(KeywordsPhrase), Space)) # {}
    THEN MaxOf(KeywordsStarts(t, i + Len(KeywordsPhrase),
                              SkipClass(t, i + Len(KeywordsPhrase), Space)))
    ELSE 0

\* group 1 from its start s: to the end of the line, stripped, with no final "."
KeywordsGroup(t, s) == RStripChars(Strip(SubSeq(t, s, FindChar(t, s, NL) - 1)), {"."})

KeywordsOf(t, found) ==
    IF found = {} THEN <<>> ELSE KeywordsGroup(t, KeywordsGroupStart(t, MinOf(found)))

\* lines 245-246: the keywords of the body, <<>> when the phrase is not found
extract_keywords(body_text) ==
    KeywordsOf(body_text,
               {i \in 1..Len(body_text) :
                   body_text[i] = KeywordsPhrase[1] /\ KeywordsGroupStart(body_text, i) > 0})

\* the starts ([^-\n]+) may take after By, which ends at e, when \s+ ends at w
ByStarts(t, e, w) == {p \in (e + 1)..w : p <= Len(t) /\ t[p] \notin {"-", NL}}

\* --\s*By\s+([^-\n]+) with By at position b: the start of group 1, 0 when none.
\* \s+ is greedy and gives characters back until the group finds its first one.
ByGroupAfter(t, b) ==
    IF HasAt(t, b, <<"B", "y">>) /\ ByStarts(t, b + 2, SkipClass(t, b + 2, Space)) # {}
    THEN MaxOf(ByStarts(t, b + 2, SkipClass(t, b + 2, Space)))
    ELSE 0

\* the same with -- at position i
ByGroupStart(t, i) ==
    IF HasAt(t, i, <<"-", "-">>) THEN ByGroupAfter(t, SkipClass(t, i + 2, Space)) ELSE 0

ByMatches(body_text) ==
    {i \in 1..Len(body_text) : body_text[i] = "-" /\ ByGroupStart(body_text, i) > 0}

\* group 1 from its start s: up to the next "-" or newline, stripped
ByGroup(t, s) == Strip(SubSeq(t, s, FindIn(t, s, {"-", NL}) - 1))

\* lines 253-255: m.group(1).strip() of the leftmost match
by_author(body_text) == ByGroup(body_text, ByGroupStart(body_text, MinOf(ByMatches(body_text))))

----------------------------------------------------------------------------
(* Keyword classifier and company pattern *)

GEO ==
    {<<"A", "s", "i", "a">>,
     <<"C", "h", "i", "n", "a">>,
     <<"H", "o", "n", "g", " ", "K", "o", "n", "g">>,
     <<"M", "a", "c", "a", "u">>,
     <<"M", "a", "c", "a", "o">>,
     <<"T", "a", "i", "w", "a", "n">>,
     <<"U", "n", "i", "t", "e", "d", " ", "S", "t", "a", "t", "e", "s">>,
     <<"U", ".", "S", ".">>,
     <<"U", "S">>,
     <<"U", "K">>,
     <<"E", "u", "r", "o", "p", "e">>,
     <<"B", "e", "i", "j", "i", "n", "g">>,
     <<"S", "h", "a", "n", "g", "h", "a", "i">>,
     <<"J", "a", "p", "a", "n">>,
     <<"K", "o", "r", "e", "a">>,
     <<"S", "o", "u", "t", "h", " ", "K", "o", "r", "e", "a">>,
     <<"N", "o", "r", "t", "h", " ", "K", "o", "r", "e", "a">>,
     <<"G", "e", "r", "m", "a", "n", "y">>,
     <<"F", "r", "a", "n", "c", "e">>,
     <<"N", "e", "t", "h", "e", "r", "l", "a", "n", "d", "s">>,
     <<"I", "r", "e", "l", "a", "n", "d">>,
     <<"S", "w", "i", "t", "z", "e", "r", "l", "a", "n", "d">>,
     <<"L", "a", "t", "i", "n", " ", "A", "m", "e", "r", "i", "c", "a">>,
     <<"A", "u", "s", "t", "r", "a", "l", "i", "a">>,
     <<"C", "a", "n", "a", "d", "a">>,
     <<"S", "i", "n", "g", "a", "p", "o", "r", "e">>,
     <<"I", "n", "d", "i", "a">>,
     <<"R", "u", "s", "s", "i", "a">>,
     <<"A", "f", "r", "i", "c", "a">>,
     <<"M", "i", "d", "d", "l", "e", " ", "E", "a", "s", "t">>}
INDUSTRY_HINTS ==
    <<<<"F", "i", "n", "a", "n", "c", "e">>,
      <<"I", "n", "v", "e", "s", "t", "m", "e", "n", "t">>,
      <<"M", "a", "t", "e", "r", "i", "a", "l", "s">>,
      <<"T", "e", "c", "h", "n", "o", "l", "o", "g", "y">>,
      <<"E", "n", "e", "r", "g", "y">>,
      <<"H", "e", "a", "l", "t", "h", "c", "a", "r", "e">>,
      <<"P", "h", "a", "r", "m", "a", "c", "e", "u", "t", "i", "c", "a", "l">>,
      <<"M", "i", "n", "i", "n", "g">>,
      <<"M", "e", "t", "a", "l", "s">>,
      <<"O", "i", "l">>,
      <<"G", "a", "s">>,
      <<"S", "h", "i", "p", "p", "i", "n", "g">>,
      <<"L", "o", "g", "i", "s", "t", "i", "c", "s">>,
      <<"A", "u", "t", "o", "m", "o", "t", "i", "v", "e">>,
      <<"R", "e", "a", "l", " ", "E", "s", "t", "a", "t", "e">>,
      <<"T", "e", "l", "e", "c", "o", "m">>,
      <<"A", "I">>,
      <<"C", "h", "i", "p">>>>
CompanySuffixes ==
    <<<<"I", "n", "c", ".">>,
      <<"C", "o", "r", "p", ".">>,
      <<"C", "o", "r", "p", "o", "r", "a", "t", "i", "o", "n">>,
      <<"L", "t", "d", ".">>,
      <<"L", "i", "m", "i", "t", "e", "d">>,
      <<"G", "r", "o", "u", "p">>,
      <<"C", "o", "m", "p", "a", "n", "y">>,
      <<"C", "o", ".">>,
      <<"P", "L", "C">>,
      <<"L", "L", "C">>,
      <<"S", ".", "A", ".">>,
      <<"A", "G">>>>

\* line 151: the trimmed non-empty parts of kw.split(",")
KeywordParts(s) ==
    LET raw == SplitCharFrom(s, 1, ",")
    IN  SelectSeq([i \in 1..Len(raw) |-> Strip(raw[i])], NonEmpty)

\* line 156: any(h.lower() in p.lower() for h in INDUSTRY_HINTS)
HasIndustryHint(p) ==
    \E k \in 1..Len(INDUSTRY_HINTS) : Contains(LowerStr(p), LowerStr(INDUSTRY_HINTS[k]))

\* the mutation of bucket_of that tests the industry hints before the geography set
bucket_of_hint_first(p) ==
    IF HasIndustryHint(p) THEN "industries"
    ELSE IF p \in GEO THEN "regions"
    ELSE "topics"

\* lines 154-159: the bucket a part is appended to
bucket_of(p) ==
    IF p \in GEO THEN "regions"
    ELSE IF HasIndustryHint(p) THEN "industries"
    ELSE "topics"

NoBuckets == [topics |-> <<>>, regions |-> <<>>, industries |-> <<>>]

\* lines 153-159: the loop over the parts from position i
RECURSIVE ClassifyLoop(_, _, _)
ClassifyLoop(parts, i, acc) ==
    IF i > Len(parts) THEN acc
    ELSE ClassifyLoop(parts, i + 1,
                      [acc EXCEPT ![bucket_of(parts[i])] = Append(@, parts[i])])

split_keywords(kw_string) == ClassifyLoop(KeywordParts(kw_string), 1, NoBuckets)

\* the separator of the joined row fields
RowSep == <<";", " ">>

\* the mutation of JoinField that joins with ";" alone
JoinFieldNoSpace(items) == Join(items, <<";">>)

\* lines 293-298: "; ".join(items)
JoinField(items) == Join(items, RowSep)

\* the characters of a company token after its capital: [A-Za-z0-9&.\-]
TokenChar == Upper \cup Lower \cup Digit \cup {"&", ".", "-"}

\* {0,6}: the tokens that may follow the first one
MaxMoreTokens == 6

\* \b at position p of t: between t[p - 1] and t[p]
WordBoundary(t, p) ==
    (p - 1 >= 1 /\ p - 1 <= Len(t) /\ t[p - 1] \in WordChar)
        # (p >= 1 /\ p <= Len(t) /\ t[p] \in WordChar)

\* (?:Inc\.|Corp\.|...|AG))\b at position p: the position after the first alternative
\* that matches and ends at a word boundary, 0 when none
SuffixEnd(t, p) ==
    LET hits == {k \in 1..Len(CompanySuffixes) :
                    /\ HasAt(t, p, CompanySuffixes[k])
                    /\ WordBoundary(t, p + Len(CompanySuffixes[k]))}
    IN  IF hits = {} THEN 0
        ELSE p + Len(CompanySuffixes[CHOOSE k \in hits : \A h \in hits : k <= h])

\* (?:\s+[A-Z][A-Za-z0-9&.\-]*){0,6}\s+(?:suffix))\b from position p, after k repeats:
\* the position after the match, 0 when none.  Another token is tried before the
\* suffix (the repeat is greedy); \s+ and the token take their whole runs, since a
\* shorter one is followed by a character the next item cannot match.
RECURSIVE CompanyRest(_, _, _)

\* the same once \s+ has matched up to q
CompanyAfterSpace(t, p, k, q) ==
    IF q = p THEN 0
    ELSE OrElsePos(IF k < MaxMoreTokens /\ q <= Len(t) /\ t[q] \in Upper
                   THEN CompanyRest(t, SkipClass(t, q + 1, TokenChar), k + 1)
                   ELSE 0,
                   SuffixEnd(t, q))

CompanyRest(t, p, k) == CompanyAfterSpace(t, p, k, SkipClass(t, p, Space))

\* COMPANY_RE.match at position i: the position after the match, 0 when none
CompanyEnd(t, i) ==
    IF i <= Len(t) /\ t[i] \in Upper /\ WordBoundary(t, i)
    THEN CompanyRest(t, SkipClass(t, i + 1, TokenChar), 0)
    ELSE 0

RECURSIVE CompanyMatches(_, _)

\* the matches from the capital at j on, where the match at j ends at e (0: no match)
CompanyMatchesAt(t, j, e) ==
    IF j > Len(t) THEN {}
    ELSE IF e > 0 THEN {SubSeq(t, j, e - 1)} \cup CompanyMatches(t, e)
    ELSE CompanyMatches(t, j + 1)

CompanyMatchesFrom(t, j) == CompanyMatchesAt(t, j, IF j > Len(t) THEN 0 ELSE CompanyEnd(t, j))

\* COMPANY_RE.finditer from position i: group 1 of the matches, left to right
CompanyMatches(t, i) == CompanyMatchesFrom(t, FindIn(t, i, Upper))

\* a < b for strings, by code points
RECURSIVE StrLess(_, _)
StrLess(a, b) ==
    IF Len(b) = 0 THEN FALSE
    ELSE IF Len(a) = 0 THEN TRUE
    ELSE IF a[1] # b[1] THEN Ord(a[1]) < Ord(b[1])
    ELSE StrLess(Tail(a), Tail(b))

\* the least string of a non-empty set
LeastStr(S) == CHOOSE x \in S : \A y \in S \ {x} : StrLess(x, y)

RECURSIVE Sorted(_)

SortedFrom(S, m) == <<m>> \o Sorted(S \ {m})

\* sorted(S) for a set of strings
Sorted(S) == IF S = {} THEN <<>> ELSE SortedFrom(S, LeastStr(S))

\* the lines of the body the company pattern looks at
SampleLines == 30

\* lines 283-284
find_companies(text) == Sorted(CompanyMatches(text, 1))

sample_of(title, body) ==
    title \o <<NL>> \o Join(Slice(SplitLines(body), 0, SampleLines), <<NL>>)

----------------------------------------------------------------------------
(* split_articles *)

\* not lines[k].strip()
IsBlank(l) == ~NonEmpty(Strip(l))

\* line 164: the indices of the word-count lines, in order
RECURSIVE AnchorsFrom(_, _)
AnchorsFrom(ls, i) ==
    IF i >= Len(ls) THEN <<>>
    ELSE (IF IsWordCountLine(At(ls, i)) THEN <<i>> ELSE <<>>) \o AnchorsFrom(ls, i + 1)

\* the mutation of title_index that takes the top of the block of non-blank lines
\* the anchor closes
RECURSIVE title_index_block_top(_, _)
title_index_block_top(ls, j) ==
    IF j >= 0 /\ IsBlank(At(ls, j)) THEN title_index_block_top(ls, j - 1)
    ELSE IF j >= 1 /\ ~IsBlank(At(ls, j - 1)) /\ ~IsWordCountLine(At(ls, j - 1))
    THEN title_index_block_top(ls, j - 1)
    ELSE j

\* lines 169-171: from j = wc_i - 1 up to the nearest non-blank line, -1 when none
RECURSIVE title_index(_, _)
title_index(ls, j) ==
    IF j >= 0 /\ IsBlank(At(ls, j)) THEN title_index(ls, j - 1) ELSE j

\* while p < len(lines) and not lines[p].strip(): p += 1
RECURSIVE SkipBlankLines(_, _)
SkipBlankLines(ls, p) ==
    IF p < Len(ls) /\ IsBlank(At(ls, p)) THEN SkipBlankLines(ls, p + 1) ELSE p

\* while s < len(lines) and lines[s].strip(): s += 1
RECURSIVE SkipTextLines(_, _)
SkipTextLines(ls, p) ==
    IF p < Len(ls) /\ ~IsBlank(At(ls, p)) THEN SkipTextLines(ls, p + 1) ELSE p

\* line 185: the stripped non-blank lines with index in range(a, b)
RECURSIVE AuthorLines(_, _, _)
AuthorLines(ls, a, b) ==
    IF a >= b THEN <<>>
    ELSE (IF IsBlank(At(ls, a)) THEN <<>> ELSE <<Strip(At(ls, a))>>)
         \o AuthorLines(ls, a + 1, b)

AuthorSep == <<" ", "|", " ">>

IpdMinLen == 2
IpdMaxLen == 10

\* line 202: re.fullmatch(r"[A-Z0-9]{2,10}", s)
IsIpd(s) ==
    /\ Len(s) >= IpdMinLen
    /\ Len(s) <= IpdMaxLen
    /\ \A k \in 1..Len(s) : s[k] \in Upper \cup Digit

\* range(25) of the language scan
LangLookahead == 25

\* lines 209-215: the scan from line q with n rounds left; the language and where q ends
RECURSIVE LangScan(_, _, _)
LangScan(ls, q, n) ==
    IF n = 0 \/ q >= Len(ls) THEN [lang |-> <<>>, q |-> q]
    ELSE LET lang == detect_language(At(ls, q))
         IN  IF NonEmpty(lang) THEN [lang |-> lang, q |-> q]
             ELSE LangScan(ls, q + 1, n - 1)

\* body_start_idx when the cursor ran off the document (None)
NoneIdx == -1

\* lines 218-223
body_start(ls, q) ==
    LET s == SkipBlankLines(ls, SkipTextLines(ls, q))
    IN  IF s < Len(ls) THEN s ELSE NoneIdx

\* int(group.replace(",", "")) raises ValueError when no digit is left
WordCountDigits(l) == SelectSeq(WordCountGroup(l), LAMBDA c : c # ",")

Skipped == [kind |-> "skip"]
Raised(what) == [kind |-> "raise", what |-> what]

\* lines 184-189 and 225-235: the article of the round, m being its metadata block
ScannedArticle(ls, wc_i, j, dt, digits, m) ==
    [kind |-> "article",
     a |-> [title |-> Strip(At(ls, j)),
            author |-> Join(AuthorLines(ls, j + 1, wc_i), AuthorSep),
            time |-> isoformat(dt),
            language |-> m.language,
            publisher |-> m.publisher,
            ipd |-> m.ipd,
            word_count |-> IntOfDigits(digits),
            body_start_idx |-> m.body_start_idx,
            title_line_idx |-> j]]

\* lines 206-223: the language scan has ended with scan
MetaWithLanguage(ls, publisher, ipd, scan) ==
    [publisher |-> publisher, ipd |-> ipd, language |-> scan.lang,
     body_start_idx |-> body_start(ls, scan.q)]

\* lines 202-215: ipd_candidate is read at cursor p
MetaWithIpd(ls, publisher, ipd_candidate, p) ==
    IF IsIpd(ipd_candidate)
    THEN MetaWithLanguage(ls, publisher, ipd_candidate, LangScan(ls, p + 1, LangLookahead))
    ELSE MetaWithLanguage(ls, publisher, <<>>, LangScan(ls, p, LangLookahead))

\* lines 199-201: the cursor p stands behind the blank lines after the publisher
MetaWithPublisher(ls, publisher, p) ==
    MetaWithIpd(ls, publisher, IF p < Len(ls) THEN Strip(At(ls, p)) ELSE <<>>, p)

\* lines 195-196: the cursor p stands behind the blank lines after the date
MetaAtPublisher(ls, p) ==
    MetaWithPublisher(ls, IF p < Len(ls) THEN Strip(At(ls, p)) ELSE <<>>,
                      SkipBlankLines(ls, p + 1))

\* lines 192-223: the metadata block after the date line p
metadata_block(ls, p) == MetaAtPublisher(ls, SkipBlankLines(ls, p + 1))

\* line 188: digits is what int() is given
ScanWithCount(ls, wc_i, j, p, dt, digits) ==
    IF ~NonEmpty(digits) THEN Raised("ValueError: int")
    ELSE ScannedArticle(ls, wc_i, j, dt, digits, metadata_block(ls, p))

\* lines 180-182: dt is what parse_factiva_date does on the line at p
ScanWithDate(ls, wc_i, j, p, dt) ==
    IF dt.kind = "raise" THEN Raised("ValueError: datetime")
    ELSE IF dt.kind = "none" THEN Skipped
    ELSE ScanWithCount(ls, wc_i, j, p, dt, WordCountDigits(At(ls, wc_i)))

\* lines 172-180: j is the title line, p the first non-blank line after the anchor
ScanWithTitle(ls, wc_i, j, p) ==
    IF j < 0 THEN Skipped
    ELSE ScanWithDate(ls, wc_i, j, p,
                      IF p < Len(ls) THEN parse_factiva_date(At(ls, p)) ELSE [kind |-> "none"])

\* lines 167-235, one round of the loop: the anchor is skipped, the round raises,
\* or an article is appended
scan_anchor(ls, wc_i) ==
    ScanWithTitle(ls, wc_i, title_index(ls, wc_i - 1), SkipBlankLines(ls, wc_i + 1))

RECURSIVE ScanLoop(_, _, _, _)

\* the loop after the round of anchor k has ended with r
ScanNext(ls, idxs, k, acc, r) ==
    IF r.kind = "raise" THEN [raised |-> TRUE, what |-> r.what, articles |-> <<>>]
    ELSE ScanLoop(ls, idxs, k + 1, IF r.kind = "article" THEN Append(acc, r.a) ELSE acc)

\* lines 167-235: the loop over the anchors from position k with the articles so far
ScanLoop(ls, idxs, k, acc) ==
    IF k > Len(idxs) THEN [raised |-> FALSE, what |-> "", articles |-> acc]
    ELSE ScanNext(ls, idxs, k, acc, scan_anchor(ls, idxs[k]))

\* lines 163-235
scan_articles(ls) == ScanLoop(ls, AnchorsFrom(ls, 0), 1, <<>>)

\* the mutation of slice_end under which every body runs to the end of the document
slice_end_document(arts, i, n) == n

\* line 240: where the body of article i (0-based) ends
slice_end(arts, i, n) ==
    IF i + 1 = Len(arts) THEN n ELSE At(arts, i + 1).title_line_idx

\* line 241
body_slice(ls, arts, i) ==
    IF At(arts, i).body_start_idx # NoneIdx
    THEN Strip(Join(Slice(ls, At(arts, i).body_start_idx, slice_end(arts, i, Len(ls))), <<NL>>))
    ELSE <<>>

\* lines 244-259: the article a with the sanitized body body_text
ArticleWithBody(a, body_text) ==
    [title |-> a.title,
     author |-> IF ~NonEmpty(a.author) /\ ByMatches(body_text) # {}
                THEN by_author(body_text) ELSE a.author,
     time |-> a.time,
     language |-> a.language,
     publisher |-> a.publisher,
     ipd |-> a.ipd,
     word_count |-> a.word_count,
     body_start_idx |-> a.body_start_idx,
     title_line_idx |-> a.title_line_idx,
     keywords |-> extract_keywords(body_text),
     file_no |-> extract_file_id(body_text),
     body |-> body_text]

\* lines 238-259, one round of the loop for article i (0-based)
attach_body(ls, arts, i) == ArticleWithBody(At(arts, i), body_sanitize(body_slice(ls, arts, i)))

\* lines 238-261
attach_bodies(ls, arts) == [i \in 1..Len(arts) |-> attach_body(ls, arts, i - 1)]

\* lines 286-300: the row of article a with the cleaned title and the buckets b
RowWith(a, title, b) ==
    [title |-> title,
     author |-> a.author,
     time |-> a.time,
     language |-> a.language,
     body |-> a.body,
     ipd |-> a.ipd,
     topics |-> JoinField(b.topics),
     regions |-> JoinField(b.regions),
     publisher |-> a.publisher,
     file_no |-> a.file_no,
     companies |-> JoinField(find_companies(sample_of(title, a.body))),
     industries |-> JoinField(b.industries),
     word_count |-> a.word_count]

\* lines 278-300: the row of one article
row_of(a) == RowWith(a, clean_title(a.title), split_keywords(a.keywords))

\* lines 276-302
build_rows(arts) == [i \in 1..Len(arts) |-> row_of(arts[i])]

\* the result of rtf_factiva_to_rows once split_articles has scanned the anchors
RowsOfScan(ls, scanned) ==
    IF scanned.raised THEN [raised |-> TRUE, what |-> scanned.what, rows |-> <<>>]
    ELSE [raised |-> FALSE, what |-> "",
          rows |-> build_rows(attach_bodies(ls, scanned.articles))]

\* rtf_factiva_to_rows from the cleaned text on (lines 275-302)
rows_of_document(ls) == RowsOfScan(ls, scan_articles(ls))

----------------------------------------------------------------------------
(* The documents the segmenter is run on: lines as preprocess leaves them *)

\* "Title"
L_Title ==
    <<"T", "i", "t", "l", "e">>

\* "Author"
L_Author ==
    <<"A", "u", "t", "h", "o", "r">>

\* "---"
L_Junk ==
    <<"-", "-", "-">>

\* 7 and the word-count unit
L_Count ==
    <<"7", zi>>

\* 1,234 and the word-count unit
L_CountComma ==
    <<"1", ",", "2", "3", "4", zi>>

\* a comma and the word-count unit: the pattern matches, no digit
L_CountNoDigit ==
    <<",", zi>>

\* 2024-3-5 09:30 in the export's notation
L_Date ==
    <<"2", "0", "2", "4", nian, "3", yue, "5", ri, " ", "0", "9", ":", "3", "0">>

\* 2023-12-31, no time
L_DateNoTime ==
    <<"2", "0", "2", "3", nian, "1", "2", yue, "3", "1", ri>>

\* month 13, day 45: the pattern matches, the date does not exist
L_DateNoMonth ==
    <<"2", "0", "2", "4", nian, "1", "3", yue, "4", "5", ri>>

\* "Publisher"
L_Publisher ==
    <<"P", "u", "b", "l", "i", "s", "h", "e", "r">>

\* "IPD1"
L_Ipd ==
    <<"I", "P", "D", "1">>

\* the label of English
L_English ==
    <<ying, wen>>

\* the label of Chinese
L_Chinese ==
    <<zhong, wen>>

\* "Body text."
L_Body ==
    <<"B", "o", "d", "y", " ", "t", "e", "x", "t", ".">>

\* "Report -- By Bob Lee"
L_ByLine ==
    <<"R", "e", "p", "o", "r", "t", " ", "-", "-", " ", "B", "y", " ", "B", "o", "b", " ", "L",
      "e", "e">>

\* 90 hexadecimal digits
L_Hex ==
    <<"0", "1", "2", "3", "4", "5", "6", "7", "8", "9", "a", "b", "c", "d", "e", "f", "0", "1",
      "2", "3", "4", "5", "6", "7", "8", "9", "a", "b", "c", "d", "e", "f", "0", "1", "2", "3",
      "4", "5", "6", "7", "8", "9", "a", "b", "c", "d", "e", "f", "0", "1", "2", "3", "4", "5",
      "6", "7", "8", "9", "a", "b", "c", "d", "e", "f", "0", "1", "2", "3", "4", "5", "6", "7",
      "8", "9", "a", "b", "c", "d", "e", "f", "0", "1", "2", "3", "4", "5", "6", "7", "8", "9">>

\* "Keywords for this news article include: China, Taiwan, Quantum Computing."
L_Keywords ==
    <<"K", "e", "y", "w", "o", "r", "d", "s", " ", "f", "o", "r", " ", "t", "h", "i", "s", " ",
      "n", "e", "w", "s", " ", "a", "r", "t", "i", "c", "l", "e", " ", "i", "n", "c", "l", "u",
      "d", "e", ":", " ", "C", "h", "i", "n", "a", ",", " ", "T", "a", "i", "w", "a", "n", ",",
      " ", "Q", "u", "a", "n", "t", "u", "m", " ", "C", "o", "m", "p", "u", "t", "i", "n", "g",
      ".">>

\* the file mark and PRN0000000012abc
L_FileNo ==
    <<wen, jian, " ", "P", "R", "N", "0", "0", "0", "0", "0", "0", "0", "0", "1", "2", "a",
      "b", "c">>

Blank == <<>>

\* what may stand above the anchor
TitleParts ==
    {<<>>, <<L_Title>>, <<L_Junk>>, <<L_Title, L_Author>>, <<L_Title, Blank, L_Author>>}

AnchorLines == {L_Count, L_CountComma, L_CountNoDigit}

\* what may follow the anchor
DateParts ==
    {<<>>, <<L_Date>>, <<Blank, L_DateNoTime>>, <<L_DateNoMonth>>, <<L_Title>>}

\* the metadata block and the body
TailParts ==
    {<<>>,
     <<L_Publisher, L_Ipd, L_English, Blank, L_Body>>,
     <<L_Publisher, L_English, Blank, L_ByLine>>,
     <<L_Publisher, Blank, L_Body>>,
     <<L_Publisher, L_Ipd, L_Chinese, Blank, L_Body, L_Hex, L_Keywords, L_FileNo>>,
     <<L_Publisher, L_Ipd, L_English, Blank, L_Body, L_Keywords, L_FileNo>>}

\* documents of one anchor
SingleDocs ==
    {t \o <<a>> \o d \o m : t \in TitleParts, a \in AnchorLines, d \in DateParts, m \in TailParts}

\* the blocks documents of several anchors are made of
Blocks ==
    {<<L_Title, L_Count, L_Date, L_Publisher, L_Ipd, L_English, Blank, L_Body>>,
     <<L_Title, L_Author, L_CountComma, L_Date, L_Publisher, L_Ipd, L_English, Blank, L_Body>>,
     <<L_Junk, L_Count, L_DateNoTime, L_Publisher, Blank, L_ByLine>>,
     <<L_Title, L_Count, L_DateNoMonth>>,
     <<L_Title, L_Count, L_Publisher>>,
     <<L_CountComma>>,
     <<L_Title, L_Count, L_Date, L_Publisher, L_English, Blank, L_Body, L_Hex, L_Keywords,
       L_FileNo>>,
     <<L_Title, Blank, L_Count, Blank, L_Date>>}

\* the blocks a document is made of, at most
MaxBlocks == 2

RECURSIVE Flatten(_)
Flatten(seqs) == IF Len(seqs) = 0 THEN <<>> ELSE seqs[1] \o Flatten(Tail(seqs))

BlockDocs == UNION {{Flatten(bs) : bs \in [1..n -> Blocks]} : n \in 1..MaxBlocks}

Documents == SingleDocs \cup BlockDocs

----------------------------------------------------------------------------
(* rtf_factiva_to_rows as a state machine: the structural scan, the bodies, the rows *)

NoMain ==
    /\ rtf_files = <<>>
    /\ merge = FALSE
    /\ out_mode = "none"
    /\ fidx = 0
    /\ all_rows = <<>>
    /\ written = <<>>
    /\ messages = <<>>

NoKeywords == kw = <<>> /\ buckets = NoBuckets

NoCompanies == sample_text = <<>> /\ companies = <<>>

NoSegmenter == lines = <<>> /\ articles = <<>> /\ rows = <<>> /\ err = ""

InitSeg ==
    /\ pc = "scan"
    /\ lines \in Documents
    /\ articles = <<>>
    /\ rows = <<>>
    /\ err = ""
    /\ NoKeywords
    /\ NoCompanies
    /\ NoMain

\* split_articles, lines 164-235, when no round raises
ScanAnchors ==
    /\ pc = "scan"
    /\ ~scan_articles(lines).raised
    /\ articles' = scan_articles(lines).articles
    /\ pc' = "attach"
    /\ UNCHANGED <<lines, rows, err, kwVars, coVars, mainVars>>

\* split_articles, lines 164-235, when a round raises: the exception leaves
\* split_articles and rtf_factiva_to_rows
ScanRaises ==
    /\ pc = "scan"
    /\ scan_articles(lines).raised
    /\ err' = scan_articles(lines).what
    /\ pc' = "raised"
    /\ UNCHANGED <<lines, articles, rows, kwVars, coVars, mainVars>>

\* split_articles, lines 238-261
AttachBodies ==
    /\ pc = "attach"
    /\ articles' = attach_bodies(lines, articles)
    /\ pc' = "rows"
    /\ UNCHANGED <<lines, rows, err, kwVars, coVars, mainVars>>

\* rtf_factiva_to_rows, lines 276-302
BuildRows ==
    /\ pc = "rows"
    /\ rows' = build_rows(articles)
    /\ pc' = "done"
    /\ UNCHANGED <<lines, articles, err, kwVars, coVars, mainVars>>

NextSeg == ScanAnchors \/ ScanRaises \/ AttachBodies \/ BuildRows

SpecSeg == InitSeg /\ [][NextSeg]_vars

----------------------------------------------------------------------------
(* split_keywords as a state machine *)

\* "China"
K_China ==
    <<"C", "h", "i", "n", "a">>

\* "Taiwan": in the geography set, and "ai" is a substring of it
K_Taiwan ==
    <<"T", "a", "i", "w", "a", "n">>

\* "Technology"
K_Technology ==
    <<"T", "e", "c", "h", "n", "o", "l", "o", "g", "y">>

\* "Quantum Computing"
K_Quantum ==
    <<"Q", "u", "a", "n", "t", "u", "m", " ", "C", "o", "m", "p", "u", "t", "i", "n", "g">>

\* "x; US": the separator of the row fields inside a keyword
K_Embedded ==
    <<"x", ";", " ", "U", "S">>

\* "x;"
K_Semicolon ==
    <<"x", ";">>

\* " US "
K_Padded ==
    <<" ", "U", "S", " ">>

\* "china": the geography set is case-sensitive
K_Lower ==
    <<"c", "h", "i", "n", "a">>

\* " ": an empty keyword
K_Blank ==
    <<" ">>

\* "China, Technology, Quantum Computing"
KwExample ==
    <<"C", "h", "i", "n", "a", ",", " ", "T", "e", "c", "h", "n", "o", "l", "o", "g", "y", ",",
    " ", "Q", "u", "a", "n", "t", "u", "m", " ", "C", "o", "m", "p", "u", "t", "i", "n", "g">>

KeywordTokens ==
    {K_China, K_Taiwan, K_Technology, K_Quantum, K_Embedded, K_Semicolon, K_Padded, K_Lower,
     K_Blank}

\* the keywords of a keyword string, at most
MaxTokens == 3

KeywordStrings ==
    {Join(ts, <<",", " ">>) : ts \in UNION {[1..n -> KeywordTokens] : n \in 0..MaxTokens}}

InitKw ==
    /\ pc = "classify"
    /\ kw \in KeywordStrings
    /\ buckets = NoBuckets
    /\ NoSegmenter
    /\ NoCompanies
    /\ NoMain

\* split_keywords, lines 150-160
SplitKeywords ==
    /\ pc = "classify"
    /\ buckets' = split_keywords(kw)
    /\ pc' = "classified"
    /\ UNCHANGED <<kw, segVars, coVars, mainVars>>

NextKw == SplitKeywords

SpecKw == InitKw /\ [][NextKw]_vars

----------------------------------------------------------------------------
(* COMPANY_RE on a sample text as a state machine *)

\* "Acme"
W_Acme ==
    <<"A", "c", "m", "e">>

\* "Robotics"
W_Robotics ==
    <<"R", "o", "b", "o", "t", "i", "c", "s">>

\* "Inc."
W_Inc ==
    <<"I", "n", "c", ".">>

\* "and"
W_and ==
    <<"a", "n", "d">>

\* "Globex"
W_Globex ==
    <<"G", "l", "o", "b", "e", "x">>

\* "Corp."
W_Corp ==
    <<"C", "o", "r", "p", ".">>

\* "announced..."
W_announced ==
    <<"a", "n", "n", "o", "u", "n", "c", "e", "d", ".", ".", ".">>

\* "Group"
W_Group ==
    <<"G", "r", "o", "u", "p">>

\* "Acme Robotics Inc. and Globex Corp. announced..."
T_Example ==
    <<"A", "c", "m", "e", " ", "R", "o", "b", "o", "t", "i", "c", "s", " ", "I", "n", "c", ".",
    " ", "a", "n", "d", " ", "G", "l", "o", "b", "e", "x", " ", "C", "o", "r", "p", ".", " ",
    "a", "n", "n", "o", "u", "n", "c", "e", "d", ".", ".", ".">>

\* "Acme Robotics Inc."
AcmeRoboticsInc ==
    <<"A", "c", "m", "e", " ", "R", "o", "b", "o", "t", "i", "c", "s", " ", "I", "n", "c", ".">>

\* "Globex Corp."
GlobexCorp ==
    <<"G", "l", "o", "b", "e", "x", " ", "C", "o", "r", "p", ".">>

CompanyWords ==
    {W_Acme, W_Robotics, W_Inc, W_and, W_Globex, W_Corp, W_announced, W_Group}

\* the words of a sample text, at most
MaxWords == 3

CompanyTexts ==
    {Join(ws, <<" ">>) : ws \in UNION {[1..n -> CompanyWords] : n \in 1..MaxWords}}
        \cup {T_Example}

InitCo ==
    /\ pc = "sample"
    /\ sample_text \in CompanyTexts
    /\ companies = <<>>
    /\ NoSegmenter
    /\ NoKeywords
    /\ NoMain

\* rtf_factiva_to_rows, line 284
FindCompanies ==
    /\ pc = "sample"
    /\ companies' = find_companies(sample_text)
    /\ pc' = "found"
    /\ UNCHANGED <<sample_text, segVars, kwVars, mainVars>>

NextCo == FindCompanies

SpecCo == InitCo /\ [][NextCo]_vars

----------------------------------------------------------------------------
(* main as a state machine: the loop over the documents and the merged output *)

\* a document of one article
DocOne ==
    <<L_Title, L_Count, L_Date, L_Publisher, L_Ipd, L_English, Blank, L_Body>>

\* a document of two articles
DocTwo ==
    DocOne \o <<L_Junk, L_CountComma, L_DateNoTime, L_Publisher, Blank, L_ByLine>>

\* a document whose date line matches the pattern and names no date
DocBadDate ==
    <<L_Title, L_Count, L_DateNoMonth>>

\* the documents main may find: their stems, whether read_text succeeds, their lines
MainFiles ==
    {[stem |-> "a", readable |-> TRUE, lines |-> DocOne],
     [stem |-> "b", readable |-> TRUE, lines |-> DocBadDate],
     [stem |-> "c", readable |-> TRUE, lines |-> DocTwo],
     [stem |-> "d", readable |-> FALSE, lines |-> <<>>]}

\* the documents of a batch, at most
MaxFiles == 3

\* lines 318-322: the enumerations of distinct documents
FileLists ==
    UNION {{fs \in [1..n -> MainFiles] : \A i, j \in 1..n : i # j => fs[i] # fs[j]} :
           n \in 0..MaxFiles}

\* line 337: rtf_factiva_to_rows(rtf_file), read_text of line 264 included
read_rows(f) ==
    IF f.readable THEN rows_of_document(f.lines)
    ELSE [raised |-> TRUE, what |-> "OSError", rows |-> <<>>]

\* lines 343-348: the CSV file of a document that is not merged
out_file(mode, f) ==
    IF mode = "dir" THEN [at |-> "output_dir", stem |-> f.stem]
    ELSE IF mode = "file" THEN [at |-> "output_path", stem |-> ""]
    ELSE [at |-> "input_dir", stem |-> f.stem]

\* lines 362-365: the CSV file of the merged rows
merged_file(mode) ==
    IF mode = "none" THEN [at |-> "input_parent", stem |-> "merged_output"]
    ELSE [at |-> "output_path", stem |-> ""]

\* the mutation of after_exception under which an exception ends the loop
after_exception_abort(i, n) == n

\* lines 357-358: the handler prints and the loop goes on with the next document
after_exception(i, n) == i + 1

InitMain ==
    /\ pc = "main"
    /\ rtf_files \in FileLists
    /\ merge \in BOOLEAN
    /\ out_mode \in {"none", "dir", "file"}
    /\ fidx = 0
    /\ all_rows = <<>>
    /\ written = <<>>
    /\ messages = <<>>
    /\ NoSegmenter
    /\ NoKeywords
    /\ NoCompanies

\* lines 324-326
NoFiles ==
    /\ pc = "main"
    /\ rtf_files = <<>>
    /\ messages' = Append(messages, [kind |-> "no files", stem |-> "", n |-> 0])
    /\ pc' = "finished"
    /\ UNCHANGED <<rtf_files, merge, out_mode, fidx, all_rows, written, segVars, kwVars, coVars>>

\* line 328
StartMain ==
    /\ pc = "main"
    /\ rtf_files # <<>>
    /\ messages' = Append(messages, [kind |-> "found", stem |-> "", n |-> Len(rtf_files)])
    /\ pc' = "loop"
    /\ UNCHANGED <<rtf_files, merge, out_mode, fidx, all_rows, written, segVars, kwVars, coVars>>

\* the two messages of a round of the loop
RoundMessages(f, kind, n) ==
    messages \o <<[kind |-> "processing", stem |-> f.stem, n |-> 0],
                  [kind |-> kind, stem |-> f.stem, n |-> n]>>

\* lines 335-340: the rows of document f are r and they are merged
MergeRows(f, r) ==
    /\ ~r.raised
    /\ all_rows' = all_rows \o r.rows
    /\ messages' = Append(messages, [kind |-> "processing", stem |-> f.stem, n |-> 0])
    /\ fidx' = fidx + 1
    /\ UNCHANGED <<pc, rtf_files, merge, out_mode, written, segVars, kwVars, coVars>>

\* lines 335-355: the rows of document f are r and its CSV file is written
WriteRows(f, r) ==
    /\ ~r.raised
    /\ written' = Append(written, [file |-> out_file(out_mode, f), rows |-> r.rows])
    /\ messages' = RoundMessages(f, "ok", Len(r.rows))
    /\ fidx' = fidx + 1
    /\ UNCHANGED <<pc, rtf_files, merge, out_mode, all_rows, segVars, kwVars, coVars>>

\* lines 335-337 and 357-358: rtf_factiva_to_rows raises on document f
ReportError(f, r) ==
    /\ r.raised
    /\ messages' = RoundMessages(f, "error", 0)
    /\ fidx' = after_exception(fidx, Len(rtf_files))
    /\ UNCHANGED <<pc, rtf_files, merge, out_mode, all_rows, written, segVars, kwVars, coVars>>

ProcessMerge ==
    /\ pc = "loop"
    /\ fidx < Len(rtf_files)
    /\ merge
    /\ MergeRows(At(rtf_files, fidx), read_rows(At(rtf_files, fidx)))

ProcessWrite ==
    /\ pc = "loop"
    /\ fidx < Len(rtf_files)
    /\ ~merge
    /\ WriteRows(At(rtf_files, fidx), read_rows(At(rtf_files, fidx)))

ProcessError ==
    /\ pc = "loop"
    /\ fidx < Len(rtf_files)
    /\ ReportError(At(rtf_files, fidx), read_rows(At(rtf_files, fidx)))

\* lines 361-372: the merged rows are written
WriteMerged ==
    /\ pc = "loop"
    /\ fidx >= Len(rtf_files)
    /\ merge
    /\ out_mode # "dir"
    /\ written' = Append(written, [file |-> merged_file(out_mode), rows |-> all_rows])
    /\ messages' = Append(messages, [kind |-> "merged", stem |-> "", n |-> Len(all_rows)])
    /\ pc' = "finished"
    /\ UNCHANGED <<rtf_files, merge, out_mode, fidx, all_rows, segVars, kwVars, coVars>>

\* line 367: output_path is a directory, open raises outside the try of the loop
WriteMergedRaises ==
    /\ pc = "loop"
    /\ fidx >= Len(rtf_files)
    /\ merge
    /\ out_mode = "dir"
    /\ err' = "IsADirectoryError"
    /\ pc' = "crashed"
    /\ UNCHANGED <<lines, articles, rows, kwVars, coVars, mainVars>>

\* line 361: nothing is merged, main returns
EndMain ==
    /\ pc = "loop"
    /\ fidx >= Len(rtf_files)
    /\ ~merge
    /\ pc' = "finished"
    /\ UNCHANGED <<segVars, kwVars, coVars, mainVars>>

NextMain ==
    \/ NoFiles
    \/ StartMain
    \/ ProcessMerge
    \/ ProcessWrite
    \/ ProcessError
    \/ WriteMerged
    \/ WriteMergedRaises
    \/ EndMain

SpecMain == InitMain /\ [][NextMain]_vars

----------------------------------------------------------------------------
(* The claims about the segmenter, checked under SpecSeg *)

\* a timestamp YYYY-MM-DD HH:MM:SS of a real calendar date-time
IsTimestamp(t) ==
    /\ Len(t) = 19
    /\ IsDigits(t, 1, 4) /\ t[5] = "-" /\ IsDigits(t, 6, 2) /\ t[8] = "-" /\ IsDigits(t, 9, 2)
    /\ t[11] = " "
    /\ IsDigits(t, 12, 2) /\ t[14] = ":" /\ IsDigits(t, 15, 2) /\ t[17] = ":"
    /\ IsDigits(t, 18, 2)
    /\ ValidDateTime(IntOfDigits(SubSeq(t, 1, 4)), IntOfDigits(SubSeq(t, 6, 7)),
                     IntOfDigits(SubSeq(t, 9, 10)), IntOfDigits(SubSeq(t, 12, 13)),
                     IntOfDigits(SubSeq(t, 15, 16)))
    /\ IntOfDigits(SubSeq(t, 18, 19)) \in 0..59

\* C1: every row of a document processed to completion has a non-empty title and a
\* timestamp YYYY-MM-DD HH:MM:SS of a real date-time. The code emits a row with an
\* empty title when clean_title strips the whole title line, so this is violated.
C1_TitleAndTimestamp ==
    pc = "done" =>
        \A i \in 1..Len(rows) : NonEmpty(rows[i].title) /\ IsTimestamp(rows[i].time)

\* C1: the part of the claim that holds in every row: the timestamp
C1_TimestampOnly ==
    pc = "done" => \A i \in 1..Len(rows) : IsTimestamp(rows[i].time)

\* C1: a row with an empty title has been emitted
C1_EmptyTitleRow ==
    /\ pc = "done"
    /\ \E i \in 1..Len(rows) : ~NonEmpty(rows[i].title) /\ IsTimestamp(rows[i].time)

\* the minimal document of C2 with the author lines au and the anchor line count
MinimalDocument(au, count) ==
    <<L_Title>> \o au \o <<count, L_Date, L_Publisher, L_Ipd, L_English, Blank, L_Body>>

\* the one record C2 expects of the minimal document, n being its word count
IsMinimalRecord(rs, n) ==
    /\ Len(rs) = 1
    /\ rs[1].title = L_Title
    /\ rs[1].word_count = n
    /\ rs[1].language = L_English
    /\ rs[1].publisher = L_Publisher
    /\ rs[1].ipd = L_Ipd
    /\ rs[1].body = L_Body

\* C2: the minimal document yields exactly one record with title "Title", word count
\* N, the language, publisher "Publisher", ipd "IPD1" and body "Body text.", without
\* and with an author line. With the author line the code takes that line for the
\* title, so this is violated.
C2_MinimalDocument ==
    \A au \in {<<>>, <<L_Author>>} :
        (pc = "done" /\ lines = MinimalDocument(au, L_Count)) => IsMinimalRecord(rows, 7)

\* C2: the half of the claim that holds: the minimal document without an author line
C2_WithoutAuthorLine ==
    (pc = "done" /\ lines = MinimalDocument(<<>>, L_Count)) => IsMinimalRecord(rows, 7)

\* C2: the minimal document with an author line has been processed: one record, whose
\* title is the author line and whose author is empty
C2_AuthorLineIsTitle ==
    /\ pc = "done"
    /\ lines = MinimalDocument(<<L_Author>>, L_Count)
    /\ Len(rows) = 1
    /\ rows[1].title = L_Author
    /\ rows[1].author = <<>>

\* C3: the body of article i is built from the lines with index in
\* [body_start_i, title_line_idx of article i+1) only, to the end of the document for
\* the last article, and is empty when the body start has run past the next title line.
C3_BodyEndsAtNextTitle ==
    pc \in {"rows", "done"} =>
        \A i \in 1..Len(articles) :
            LET a == articles[i]
                last == IF i = Len(articles) THEN Len(lines)
                        ELSE articles[i + 1].title_line_idx
            IN  a.body = IF a.body_start_idx = NoneIdx \/ a.body_start_idx >= last THEN <<>>
                         ELSE body_sanitize(Strip(Join(Slice(lines, a.body_start_idx, last),
                                                       <<NL>>)))

\* C3: two articles back to back, the first with a body that ends before the second's
\* title line
C3_TwoArticles ==
    /\ pc = "done"
    /\ Len(articles) = 2
    /\ articles[1].body = L_Body
    /\ articles[1].body_start_idx < articles[2].title_line_idx
    /\ articles[2].title_line_idx < Len(lines)

\* C3: the body start of the first article has run past the title line of the second
C3_CursorPastNextTitle ==
    /\ pc = "done"
    /\ Len(articles) = 2
    /\ articles[1].body_start_idx > articles[2].title_line_idx
    /\ articles[1].body = <<>>

\* what parse_factiva_date does on the first non-blank line p after an anchor
DateAfterAnchor(ls, p) ==
    IF p < Len(ls) THEN parse_factiva_date(At(ls, p)) ELSE [kind |-> "none"]

\* the anchors of ls that have a title line, a valid date and a digit in their count
AcceptedAnchors(ls) ==
    {w \in 0..(Len(ls) - 1) :
        /\ IsWordCountLine(At(ls, w))
        /\ title_index(ls, w - 1) >= 0
        /\ DateAfterAnchor(ls, SkipBlankLines(ls, w + 1)).kind = "ok"}

\* no anchor of ls has a count without a digit, on which int() raises
CountsHaveDigits(ls) ==
    \A w \in 0..(Len(ls) - 1) :
        IsWordCountLine(At(ls, w)) => NonEmpty(WordCountDigits(At(ls, w)))

\* C4: an anchor whose next non-blank line yields no valid date, digits that match the
\* pattern and name no real date included, produces no record and raises no error,
\* and the records of the other anchors are returned. On such digits datetime raises
\* ValueError and the whole document is lost, so this is violated.
C4_InvalidDateDiscarded ==
    (pc # "scan" /\ CountsHaveDigits(lines)) =>
        /\ pc # "raised"
        /\ Len(articles) = Cardinality(AcceptedAnchors(lines))

\* C4: the part of the claim that holds: when no date line raises, the anchors without
\* a valid date are discarded and the others yield the records
C4_NoDateDiscarded ==
    (pc \in {"attach", "rows", "done"}) =>
        Len(articles) = Cardinality(AcceptedAnchors(lines))

\* C4: split_articles has raised on a date line that matches the pattern and names no
\* date, in a document that holds an acceptable article as well
C4_DateRaises ==
    /\ pc = "raised"
    /\ err = "ValueError: datetime"
    /\ AcceptedAnchors(lines) # {}

\* the first hex line of raw from position i on, 0 when none
RECURSIVE FirstHexLine(_, _)
FirstHexLine(raw, i) ==
    IF i > Len(raw) THEN 0
    ELSE IF IsHexLine(raw[i]) THEN i
    ELSE FirstHexLine(raw, i + 1)

\* article a holds what the lines kept of its body slice give
BuiltFrom(a, kept) ==
    /\ a.body = kept
    /\ a.keywords = extract_keywords(kept)
    /\ a.file_no = extract_file_id(kept)
    /\ \A k \in 1..Len(SplitLines(a.body)) : ~IsHexLine(SplitLines(a.body)[k])

\* article a is truncated at the hex line h of its body slice raw
TruncatedAt(a, raw, h) ==
    h > 0 => BuiltFrom(a, body_sanitize(Join(SubSeq(raw, 1, h - 1), <<NL>>)))

\* C8: when a line of the body slice is, trimmed, longer than 80 characters and more
\* than 0.8 hexadecimal digits, the stored body holds the lines before the first such
\* line only, and keywords and file identifier come from that retained part.
C8_TruncatedAtHexLine ==
    pc \in {"rows", "done"} =>
        \A i \in 1..Len(articles) :
            TruncatedAt(articles[i], SplitLines(body_slice(lines, articles, i - 1)),
                        FirstHexLine(SplitLines(body_slice(lines, articles, i - 1)), 1))

\* C8: an article whose body slice holds a hex line between its text and its keyword
\* and file lines: the text is kept, keywords and file identifier are empty
C8_HexLineInBody ==
    /\ pc = "done"
    /\ \E i \in 1..Len(articles) :
        /\ FirstHexLine(SplitLines(body_slice(lines, articles, i - 1)), 1) = 2
        /\ SplitLines(body_slice(lines, articles, i - 1))[3] = L_Keywords
        /\ articles[i].body = L_Body
        /\ articles[i].keywords = <<>>
        /\ articles[i].file_no = <<>>

\* the first anchor of ls below line j
RECURSIVE AnchorBelow(_, _)
AnchorBelow(ls, j) ==
    IF j + 1 >= Len(ls) \/ IsWordCountLine(At(ls, j + 1)) THEN j + 1
    ELSE AnchorBelow(ls, j + 1)

----------------------------------------------------------------------------
(* The claims about the classifier, checked under SpecKw *)

\* str.split(sep) for a separator of several characters, from position i on
RECURSIVE SplitStrFrom(_, _, _, _)
SplitStrFrom(t, i, j, sep) ==
    IF j + Len(sep) - 1 > Len(t) THEN <<SubSeq(t, i, Len(t))>>
    ELSE IF HasAt(t, j, sep)
    THEN <<SubSeq(t, i, j - 1)>> \o SplitStrFrom(t, j + Len(sep), j + Len(sep), sep)
    ELSE SplitStrFrom(t, i, j + 1, sep)

\* the joined field split again on the separator of the row fields, and its trimmed
\* non-empty tokens classified
Reclassified(field) ==
    LET raw == SplitStrFrom(field, 1, 1, RowSep)
    IN  ClassifyLoop(SelectSeq([i \in 1..Len(raw) |-> Strip(raw[i])], NonEmpty), 1, NoBuckets)

\* the three joined buckets b give the same three buckets again
Idempotent(b) ==
    /\ Reclassified(JoinField(b.topics)) = [NoBuckets EXCEPT !.topics = b.topics]
    /\ Reclassified(JoinField(b.regions)) = [NoBuckets EXCEPT !.regions = b.regions]
    /\ Reclassified(JoinField(b.industries)) = [NoBuckets EXCEPT !.industries = b.industries]

\* no keyword of s holds the separator of the row fields
NoSeparatorInside(s) ==
    \A i \in 1..Len(KeywordParts(s)) : ~Contains(KeywordParts(s)[i], RowSep)

\* C6 as stated: for every keyword string, joining each bucket with "; ", splitting
\* it again on "; " and classifying the tokens gives the same three buckets. A keyword
\* that holds "; " is split in two, so this is violated.
C6_IdempotentAlways ==
    pc = "classified" => Idempotent(buckets)

\* C6, amended: for every keyword string none of whose keywords holds "; ", joining
\* each bucket with "; ", splitting it again on "; " and classifying the tokens gives
\* the same three buckets.
C6_Idempotent ==
    (pc = "classified" /\ NoSeparatorInside(kw)) => Idempotent(buckets)

\* C6: a keyword string of two topics, one of them ending in ";", has been classified
C6_TwoTopics ==
    /\ pc = "classified"
    /\ NoSeparatorInside(kw)
    /\ buckets.topics = <<K_Semicolon, K_Quantum>>
    /\ Idempotent(buckets)

\* the buckets the priority region, industry, topic gives the tokens
PriorityBuckets(tokens) ==
    [topics |-> SelectSeq(tokens, LAMBDA p : p \notin GEO /\ ~HasIndustryHint(p)),
     regions |-> SelectSeq(tokens, LAMBDA p : p \in GEO),
     industries |-> SelectSeq(tokens, LAMBDA p : p \notin GEO /\ HasIndustryHint(p))]

\* C7: each trimmed non-empty token is in exactly one bucket: region if it is a member
\* of the geography set, else industry if an industry hint is a case-insensitive
\* substring of it, else topic; the buckets keep the input order; on
\* "China, Technology, Quantum Computing" regions = [China], industries =
\* [Technology], topics = [Quantum Computing].
C7_BucketPriority ==
    pc = "classified" =>
        /\ buckets = PriorityBuckets(KeywordParts(kw))
        /\ Len(buckets.topics) + Len(buckets.regions) + Len(buckets.industries)
               = Len(KeywordParts(kw))
        /\ kw = KwExample =>
               buckets = [topics |-> <<K_Quantum>>, regions |-> <<K_China>>,
                          industries |-> <<K_Technology>>]

\* C7: a keyword string with a region that holds an industry hint, an industry and a
\* topic has been classified
C7_RegionBeforeIndustry ==
    /\ pc = "classified"
    /\ buckets = [topics |-> <<K_Quantum>>, regions |-> <<K_Taiwan>>,
                  industries |-> <<K_Technology>>]
    /\ HasIndustryHint(K_Taiwan)

----------------------------------------------------------------------------
(* The claim about the company extractor, checked under SpecCo *)

\* C5: the extractor returns the companies with dot-terminated suffixes followed by
\* whitespace or the end of the text; on "Acme Robotics Inc. and Globex Corp.
\* announced..." exactly [Acme Robotics Inc., Globex Corp.]. The \b after the suffix
\* does not hold between "." and a blank or the end, so this is violated.
C5_DottedSuffixes ==
    pc = "found" =>
        /\ sample_text = T_Example => companies = <<AcmeRoboticsInc, GlobexCorp>>
        /\ \A w \in {W_Inc, W_Corp} :
               sample_text = W_Acme \o <<" ">> \o w => companies = <<sample_text>>

\* C5: the part of the claim that holds: a suffix that ends in a letter
C5_PlainSuffix ==
    (pc = "found" /\ sample_text = W_Acme \o <<" ">> \o W_Robotics \o <<" ">> \o W_Group) =>
        companies = <<sample_text>>

\* C5: the extractor has run on the example text and has found no company
C5_ExampleFindsNothing ==
    /\ pc = "found"
    /\ sample_text = T_Example
    /\ companies = <<>>

----------------------------------------------------------------------------
(* The claim about main, checked under SpecMain *)

\* the merged rows of the documents fs: the rows of those that do not raise, in order
RECURSIVE ExpectedRows(_)
ExpectedRows(fs) ==
    IF Len(fs) = 0 THEN <<>>
    ELSE (IF read_rows(fs[1]).raised THEN <<>> ELSE read_rows(fs[1]).rows)
         \o ExpectedRows(Tail(fs))

\* the CSV files of the documents fs: one for each that does not raise, in order
RECURSIVE ExpectedFiles(_, _)
ExpectedFiles(fs, mode) ==
    IF Len(fs) = 0 THEN <<>>
    ELSE (IF read_rows(fs[1]).raised THEN <<>>
          ELSE <<[file |-> out_file(mode, fs[1]), rows |-> read_rows(fs[1]).rows]>>)
         \o ExpectedFiles(Tail(fs), mode)

\* the stems of the documents of fs that raise, in order
RECURSIVE ExpectedErrors(_)
ExpectedErrors(fs) ==
    IF Len(fs) = 0 THEN <<>>
    ELSE (IF read_rows(fs[1]).raised THEN <<fs[1].stem>> ELSE <<>>)
         \o ExpectedErrors(Tail(fs))

\* the stems of the messages of one kind, in order
StemsOf(ms, kind) ==
    LET sel == SelectSeq(ms, LAMBDA m : m.kind = kind)
    IN  [i \in 1..Len(sel) |-> sel[i].stem]

\* the stems of the documents fs, in order
Stems(fs) == [i \in 1..Len(fs) |-> fs[i].stem]

\* C9: whichever documents raise, the loop processes every document in enumeration
\* order; the rows of each document that does not raise are written (per file) or
\* appended to the merged rows in enumeration order (merge), and a document that
\* raises gives no rows and one error message.
C9_FailureIsolation ==
    pc \in {"loop", "finished", "crashed"} =>
        /\ fidx <= Len(rtf_files)
        /\ pc \in {"finished", "crashed"} => fidx = Len(rtf_files)
        /\ StemsOf(messages, "processing") = Stems(SubSeq(rtf_files, 1, fidx))
        /\ StemsOf(messages, "error") = ExpectedErrors(SubSeq(rtf_files, 1, fidx))
        /\ merge => all_rows = ExpectedRows(SubSeq(rtf_files, 1, fidx))
        /\ (merge /\ pc = "finished" /\ rtf_files # <<>>) =>
               written = <<[file |-> merged_file(out_mode), rows |-> ExpectedRows(rtf_files)]>>
        /\ ~merge => /\ written = ExpectedFiles(SubSeq(rtf_files, 1, fidx), out_mode)
                     /\ all_rows = <<>>

\* C9: a merged batch has finished in which a document that raises precedes a document
\* with rows
C9_RowsAfterFailure ==
    /\ pc = "finished"
    /\ merge
    /\ Len(rtf_files) = 3
    /\ ~read_rows(rtf_files[1]).raised
    /\ read_rows(rtf_files[2]).raised
    /\ ~read_rows(rtf_files[3]).raised
    /\ Len(all_rows) = Len(read_rows(rtf_files[1]).rows) + Len(read_rows(rtf_files[3]).rows)
    /\ Len(read_rows(rtf_files[3]).rows) > 0

====
